---- MODULE Spec2Model ----
(***************************************************************************)
(* The state-estimation node of PiDrone, scripts/state_estimation.py: one  *)
(* StateEstimation object `se` and the three subscriber callbacks that     *)
(* work on it.  Line numbers are those of scripts/state_estimation.py.     *)
(*                                                                         *)
(* The filter itself (filterpy's UnscentedKalmanFilter) is a library: the  *)
(* model keeps of it the calls the node makes, self.ukf.predict(dt, u) and *)
(* self.ukf.update(z, hx, R), in the order it makes them, each with its    *)
(* arguments.  The mean and covariance are a function of that sequence:    *)
(* they have their constructed values while it is empty, and a call is     *)
(* what changes them.                                                      *)
(*                                                                         *)
(* Python's None is the empty tuple and a value v that may be None is <<v>>*)
(* (so that None compares with every value).  Times are whole nanoseconds: *)
(* new_time of line 154, a float of seconds, is secs*10^9 + nsecs here,    *)
(* which is exact for the stamps the model draws.                          *)
(***************************************************************************)
EXTENDS Integers, Sequences, FiniteSets, TLC

VARIABLES se, thread, arrivals, call

vars == <<se, thread, arrivals, call>>

----------------------------------------------------------------------------
(* Bounds of the model *)

\* header.stamp.secs of a message is in 0..MaxSecs
MaxSecs == 1
\* at most this many messages are delivered in one behaviour
MaxArrivals == 3
\* a body-frame vector component is in -MaxComponent..MaxComponent
MaxComponent == 1
\* roll, pitch and yaw are 0, 90, ..., 90*MaxQuarterTurns degrees
MaxQuarterTurns == 3

(* Program constants *)

\* line 154: new_time = last_time_secs + last_time_nsecs*1e-9
NanosPerSec == 1000000000

----------------------------------------------------------------------------
(* Values *)

None == <<>>
Some(v) == <<v>>

\* the three topics of lines 56-58, one subscriber (and one thread) each
Modalities == {"imu", "optical_flow", "ir"}

\* header.stamp of a message, secs seconds and nsecs nanoseconds: the stamps
\* with secs + nsecs = MaxSecs, which come in either order and repeat
Stamps == {[secs |-> k, nsecs |-> MaxSecs - k] : k \in 0..MaxSecs}

\* sensor_msgs/Imu: header.stamp, linear_acceleration, orientation (a
\* quaternion, here the number of quarter turns about the z axis it encodes)
ImuMsgs ==
    [kind : {"imu"}, stamp : Stamps,
     linear_acceleration : {<<0, 0, 0>>, <<0, 0, 1>>, <<1, 0, 0>>},
     orientation : {0}]

\* pidrone_pkg/Mode: header.stamp, x_velocity, y_velocity, yaw_velocity
ModeMsgs ==
    [kind : {"optical_flow"}, stamp : Stamps,
     x_velocity : {1}, y_velocity : {0}, yaw_velocity : {0}]

\* sensor_msgs/Range: header.stamp, range
RangeMsgs == [kind : {"ir"}, stamp : Stamps, range : {1, 2}]

Msgs == ImuMsgs \cup ModeMsgs \cup RangeMsgs

\* the stack frame of one running callback: where it is, its message, its
\* local new_time, and (for the record kept in arrivals) the index of the
\* arrival and the dt it stored
Idle == [pc |-> "idle", msg |-> [kind |-> "none"], new_time |-> None,
         index |-> 0, dt |-> None]

Entered(msg, i) ==
    [pc |-> "l152", msg |-> msg, new_time |-> None, index |-> i, dt |-> None]

Terminal(f) == f.pc \in {"returned", "TypeError"}

----------------------------------------------------------------------------
(* Construction *)

\* initialize_ukf: the filter is built with the combined 7-dimensional
\* measurement_function as its default hx; no call has been made on it
UnscentedKalmanFilter ==
    [hx |-> "measurement_function", dim_z |-> 7, calls |-> <<>>]

\* __init__: no time, no dt, no prior, zero control input.  last_time_secs
\* and last_time_nsecs do not exist before the first update_input_time.
StateEstimation ==
    [ukf |-> UnscentedKalmanFilter,
     last_state_transition_time |-> None,
     dt |-> None,
     computed_first_prior |-> FALSE,
     last_control_input |-> <<0, 0, 0>>,
     last_time_secs |-> None,
     last_time_nsecs |-> None]

\* initialize_ukf_matrices: the measurement covariances, by name and size
measurement_cov_ir == [name |-> "measurement_cov_ir", dim |-> 1]
measurement_cov_optical_flow == [name |-> "measurement_cov_optical_flow", dim |-> 3]
measurement_cov_rpy == [name |-> "measurement_cov_rpy", dim |-> 3]

----------------------------------------------------------------------------
(* The methods, one statement a step.  Each takes the object s and the    *)
(* frame f of the callback that runs it and gives the two after the step. *)

After(s, f) == [se |-> s, frame |-> f]

\* line 154
ToSecs(secs, nsecs) == secs * NanosPerSec + nsecs

\* update_input_time, lines 152-159; ret is where the caller goes on.
\* Line 156 subtracts last_state_transition_time from a float: with None
\* there Python raises TypeError and the callback ends (rospy logs it).
update_input_time(s, f, ret) ==
    CASE f.pc = "l152" ->
           After([s EXCEPT !.last_time_secs = Some(f.msg.stamp.secs)],
                 [f EXCEPT !.pc = "l153"])
      [] f.pc = "l153" ->
           After([s EXCEPT !.last_time_nsecs = Some(f.msg.stamp.nsecs)],
                 [f EXCEPT !.pc = "l154"])
      [] f.pc = "l154" ->
           After(s, [f EXCEPT !.new_time =
                                 Some(ToSecs(s.last_time_secs[1], s.last_time_nsecs[1])),
                              !.pc = "l156"])
      [] f.pc = "l156" ->
           IF s.last_state_transition_time = None
           THEN After(s, [f EXCEPT !.pc = "TypeError"])
           ELSE LET d == f.new_time[1] - s.last_state_transition_time[1]
                IN  After([s EXCEPT !.dt = Some(d)],
                          [f EXCEPT !.dt = Some(d), !.pc = "l159"])
      [] f.pc = "l159" ->
           After([s EXCEPT !.last_state_transition_time = f.new_time],
                 [f EXCEPT !.pc = ret])

InUpdateInputTime(f) == f.pc \in {"l152", "l153", "l154", "l156", "l159"}

\* self.ukf.predict(dt=, u=): the call, recorded with its arguments
predict(ukf, i, dt, u) ==
    [ukf EXCEPT !.calls = Append(@, [op |-> "predict", arrival |-> i,
                                     dt |-> dt, u |-> u])]

\* self.ukf.update(z, hx=, R=): the call, recorded with its arguments and
\* with whether a prior had been computed; an hx of None is the filter's
\* default
update(ukf, i, z, hx, R, prior) ==
    [ukf EXCEPT !.calls =
        Append(@, [op |-> "update", arrival |-> i, z |-> z,
                   hx |-> IF hx = None THEN ukf.hx ELSE hx[1],
                   R |-> R, prior |-> prior])]

\* ukf_predict that forgets line 167: the prior is computed and not noted
ukf_predict_without_flag(s, f, ret) ==
    CASE f.pc = "l166" ->
           After([s EXCEPT !.ukf = predict(@, f.index, s.dt[1], s.last_control_input)],
                 [f EXCEPT !.pc = "l167"])
      [] f.pc = "l167" -> After(s, [f EXCEPT !.pc = ret])

\* ukf_predict, lines 166-167
ukf_predict(s, f, ret) ==
    CASE f.pc = "l166" ->
           After([s EXCEPT !.ukf = predict(@, f.index, s.dt[1], s.last_control_input)],
                 [f EXCEPT !.pc = "l167"])
      [] f.pc = "l167" ->
           After([s EXCEPT !.computed_first_prior = TRUE],
                 [f EXCEPT !.pc = ret])

\* tf.transformations.euler_from_quaternion of the message's orientation:
\* roll, pitch, yaw in radians, here in quarter turns (units of pi/2)
euler_from_quaternion(q) == [unit |-> "rad", rpy |-> <<0, 0, q>>]

\* imu_data_callback with lines 178-180 and 181 exchanged: it predicts with
\* the control input it had and replaces it afterwards
imu_data_callback_predicts_first(s, f) ==
    IF InUpdateInputTime(f) THEN update_input_time(s, f, "l166")
    ELSE IF f.pc \in {"l166", "l167"} THEN ukf_predict(s, f, "l178")
    ELSE IF f.pc = "l178" THEN
        After([s EXCEPT !.last_control_input = f.msg.linear_acceleration],
              [f EXCEPT !.pc = "l196"])
    ELSE
        After([s EXCEPT !.ukf =
                  update(@, f.index, euler_from_quaternion(f.msg.orientation),
                         Some("measurement_function_rpy"), measurement_cov_rpy,
                         s.computed_first_prior)],
              [f EXCEPT !.pc = "returned"])

\* imu_data_callback, lines 177-198
imu_data_callback(s, f) ==
    IF InUpdateInputTime(f) THEN update_input_time(s, f, "l178")
    ELSE IF f.pc = "l178" THEN
        After([s EXCEPT !.last_control_input = f.msg.linear_acceleration],
              [f EXCEPT !.pc = "l166"])
    ELSE IF f.pc \in {"l166", "l167"} THEN ukf_predict(s, f, "l196")
    ELSE
        After([s EXCEPT !.ukf =
                  update(@, f.index, euler_from_quaternion(f.msg.orientation),
                         Some("measurement_function_rpy"), measurement_cov_rpy,
                         s.computed_first_prior)],
              [f EXCEPT !.pc = "returned"])

\* optical_flow_data_callback, lines 210-223
optical_flow_data_callback(s, f) ==
    IF InUpdateInputTime(f) THEN update_input_time(s, f, "l166")
    ELSE IF f.pc \in {"l166", "l167"} THEN ukf_predict(s, f, "l221")
    ELSE
        After([s EXCEPT !.ukf =
                  update(@, f.index,
                         <<f.msg.x_velocity, f.msg.y_velocity, f.msg.yaw_velocity>>,
                         Some("measurement_function_optical_flow"),
                         measurement_cov_optical_flow, s.computed_first_prior)],
              [f EXCEPT !.pc = "returned"])

\* ir_data_callback that leaves hx= out of its update: the filter then uses
\* the hx it was built with
ir_data_callback_default_model(s, f) ==
    IF InUpdateInputTime(f) THEN update_input_time(s, f, "l166")
    ELSE IF f.pc \in {"l166", "l167"} THEN ukf_predict(s, f, "l238")
    ELSE
        After([s EXCEPT !.ukf =
                  update(@, f.index, <<f.msg.range>>, None, measurement_cov_ir,
                         s.computed_first_prior)],
              [f EXCEPT !.pc = "returned"])

\* ir_data_callback, lines 231-240
ir_data_callback(s, f) ==
    IF InUpdateInputTime(f) THEN update_input_time(s, f, "l166")
    ELSE IF f.pc \in {"l166", "l167"} THEN ukf_predict(s, f, "l238")
    ELSE
        After([s EXCEPT !.ukf =
                  update(@, f.index, <<f.msg.range>>,
                         Some("measurement_function_ir"), measurement_cov_ir,
                         s.computed_first_prior)],
              [f EXCEPT !.pc = "returned"])

\* the subscriptions of lines 56-58: each topic's message goes to its callback
Step(s, f) ==
    CASE f.msg.kind = "imu" -> imu_data_callback(s, f)
      [] f.msg.kind = "optical_flow" -> optical_flow_data_callback(s, f)
      [] f.msg.kind = "ir" -> ir_data_callback(s, f)

\* a callback run from its first statement to its return or its exception
RECURSIVE Run(_, _)
Run(s, f) ==
    IF Terminal(f) THEN After(s, f)
    ELSE LET r == Step(s, f) IN Run(r.se, r.frame)

\* what arrivals keeps of a callback: its message, how it ended, the dt it
\* stored (None when it stored none)
Record(f) == [msg |-> f.msg, outcome |-> f.pc, dt |-> f.dt]

----------------------------------------------------------------------------
(* The node from construction, messages handled one at a time: each       *)
(* callback runs to its end before the next message is delivered.         *)

NoCall == [fn |-> "none"]

Init ==
    /\ se = StateEstimation
    /\ thread = [t \in Modalities |-> Idle]
    /\ arrivals = <<>>
    /\ call = NoCall

Arrival(msg) ==
    /\ Len(arrivals) < MaxArrivals
    /\ LET r == Run(se, Entered(msg, Len(arrivals) + 1))
       IN  /\ se' = r.se
           /\ arrivals' = Append(arrivals, Record(r.frame))
    /\ UNCHANGED <<thread, call>>

Next == \E msg \in Msgs : Arrival(msg)

Spec == Init /\ [][Next]_vars

----------------------------------------------------------------------------
(* The node from construction with each topic's callback on the thread of *)
(* its own subscriber, as rospy runs them: a callback is entered when a   *)
(* message of its topic is delivered and then advances a statement at a   *)
(* time, interleaved with the callbacks of the other two topics.  Nothing *)
(* in the callbacks takes a lock.                                         *)

Deliver(t, msg) ==
    /\ thread[t].pc = "idle"
    /\ msg.kind = t
    /\ Len(arrivals) < MaxArrivals
    /\ thread' = [thread EXCEPT ![t] = Entered(msg, Len(arrivals) + 1)]
    /\ arrivals' = Append(arrivals, [msg |-> msg, outcome |-> "running", dt |-> None])
    /\ UNCHANGED <<se, call>>

Advance(t) ==
    /\ thread[t].pc # "idle"
    /\ LET r == Step(se, thread[t])
       IN  /\ se' = r.se
           /\ IF Terminal(r.frame)
              THEN /\ thread' = [thread EXCEPT ![t] = Idle]
                   /\ arrivals' = [arrivals EXCEPT ![r.frame.index] = Record(r.frame)]
              ELSE /\ thread' = [thread EXCEPT ![t] = r.frame]
                   /\ UNCHANGED arrivals
    /\ UNCHANGED call

NextThreads ==
    \/ \E t \in Modalities, msg \in Msgs : Deliver(t, msg)
    \/ \E t \in Modalities : Advance(t)

SpecThreads == Init /\ [][NextThreads]_vars

----------------------------------------------------------------------------
(* The callbacks entered with any value of last_state_transition_time:   *)
(* None, as constructed, or the time of an earlier input.  From           *)
(* construction the node never stores a time (line 156 raises before line *)
(* 159 is reached, in every callback), so the behaviours from a stored    *)
(* time are those of the callbacks' code beyond line 156, not behaviours  *)
(* of the running node; the behaviours of Spec are among those of         *)
(* SpecEntry.                                                             *)

\* the object with the time of an input stamped st stored by lines 152-159
\* and nothing else done
After159(st) ==
    [StateEstimation EXCEPT !.last_time_secs = Some(st.secs),
                            !.last_time_nsecs = Some(st.nsecs),
                            !.last_state_transition_time =
                                Some(ToSecs(st.secs, st.nsecs))]

InitEntry ==
    /\ se \in {StateEstimation} \cup {After159(st) : st \in Stamps}
    /\ thread = [t \in Modalities |-> Idle]
    /\ arrivals = <<>>
    /\ call = NoCall

SpecEntry == InitEntry /\ [][Next]_vars

----------------------------------------------------------------------------
(* Notions the properties below are stated in *)

Calls == se.ukf.calls

StampTime(msg) == ToSecs(msg.stamp.secs, msg.stamp.nsecs)

\* the calls on the filter made while handling arrival i
CallsOf(i) == {k \in 1..Len(Calls) : Calls[k].arrival = i}

\* arrival i has finished and was fused: its predict and its update were made
Fused(i) ==
    /\ \E k \in CallsOf(i) : Calls[k].op = "predict"
    /\ \E k \in CallsOf(i) : Calls[k].op = "update"

\* the mean and covariance are those of construction
MeanAndCovarianceAsConstructed == Calls = <<>>

----------------------------------------------------------------------------
(* C1 *)

\* C1: the first arrival, of any modality, with no fusion time recorded yet,
\* records its timestamp as the last fusion time, makes no predict and no
\* update and leaves the mean at zero; the second arrival computes its dt
\* against that recorded time.
C1_FirstArrivalRecordsItsTime ==
    /\ Len(arrivals) >= 1 =>
          /\ CallsOf(1) = {}
          /\ arrivals[1].outcome = "returned"
          /\ Len(arrivals) = 1 =>
                /\ se.last_state_transition_time = Some(StampTime(arrivals[1].msg))
                /\ MeanAndCovarianceAsConstructed
    /\ Len(arrivals) >= 2 =>
          arrivals[2].dt = Some(StampTime(arrivals[2].msg) - StampTime(arrivals[1].msg))

----------------------------------------------------------------------------
(* C2 *)

\* a running callback has written one of the object's fields and has another
\* write still ahead of it.  The fields a callback writes are the last input
\* time (last_time_secs, last_time_nsecs, last_state_transition_time), dt,
\* last_control_input, and the filter's mean and covariance (predict, update);
\* lines 154 and 156 are followed by a write only when line 156 does not raise.
BetweenWrites(t) ==
    \/ thread[t].pc = "l153"
    \/ /\ thread[t].pc \in {"l154", "l156"}
       /\ se.last_state_transition_time # None
    \/ thread[t].pc \in {"l159", "l178", "l166", "l167", "l196", "l221", "l238"}

\* C2: with the three callbacks on threads of their own, no two of them are
\* at once between their first and their last write to the fields they share.
C2_CallbacksExcludeEachOther ==
    \A t1, t2 \in Modalities :
        t1 # t2 => ~(BetweenWrites(t1) /\ BetweenWrites(t2))

----------------------------------------------------------------------------
(* C3 *)

----------------------------------------------------------------------------
(* C5 *)

\* every update in the calls comes right after a predict of the same arrival,
\* that arrival made one predict only, and a prior had been computed
UpdateFollowsItsPredict ==
    \A k \in 1..Len(Calls) :
        Calls[k].op = "update" =>
            /\ k > 1
            /\ Calls[k - 1].op = "predict"
            /\ Calls[k - 1].arrival = Calls[k].arrival
            /\ Cardinality({j \in CallsOf(Calls[k].arrival) :
                               Calls[j].op = "predict"}) = 1
            /\ Calls[k].prior

\* C5: with arrivals handled one at a time, each update is immediately
\* preceded, in the handling of the same arrival, by exactly one predict;
\* no update is made while no prior is computed; and computed_first_prior,
\* once true, stays true.
C5_PredictPrecedesEveryUpdate ==
    /\ []UpdateFollowsItsPredict
    /\ [][se.computed_first_prior => se'.computed_first_prior]_vars

\* two arrivals have been fused, each by one predict and one update
C5_TwoArrivalsFused ==
    /\ Len(Calls) = 4
    /\ Fused(Calls[1].arrival) /\ Fused(Calls[3].arrival)
    /\ Calls[1].arrival # Calls[3].arrival
    /\ se.computed_first_prior

----------------------------------------------------------------------------
(* C6 *)

\* arrival j is an inertial one that reached line 178
SetControlInput(j) ==
    /\ arrivals[j].msg.kind = "imu"
    /\ arrivals[j].outcome = "returned"

\* the linear acceleration of the last inertial arrival among the first i
\* that reached line 178, or zero when there is none
RECURSIVE LastAcceleration(_)
LastAcceleration(i) ==
    IF i = 0 THEN <<0, 0, 0>>
    ELSE IF SetControlInput(i) THEN arrivals[i].msg.linear_acceleration
    ELSE LastAcceleration(i - 1)

\* C6: last_control_input is (0,0,0) until an inertial arrival replaces it
\* with its linear acceleration, before that arrival's predict; optical-flow
\* and range arrivals leave it alone; so every predict is passed the
\* acceleration of the most recent inertial arrival, or zero.
C6_ControlInputIsLastAcceleration ==
    /\ se.last_control_input = LastAcceleration(Len(arrivals))
    /\ \A k \in 1..Len(Calls) :
          Calls[k].op = "predict" => Calls[k].u = LastAcceleration(Calls[k].arrival)

\* two inertial arrivals with different accelerations were handled and then
\* an optical-flow or range arrival, which predicted with the acceleration of
\* the second and left last_control_input at it
C6_HeldAccelerationUsed ==
    \E k \in 1..Len(Calls) :
        LET i == Calls[k].arrival
        IN  /\ Calls[k].op = "predict"
            /\ i = 3
            /\ arrivals[i].msg.kind # "imu"
            /\ SetControlInput(1) /\ SetControlInput(2)
            /\ arrivals[1].msg.linear_acceleration # arrivals[2].msg.linear_acceleration
            /\ Calls[k].u = arrivals[2].msg.linear_acceleration
            /\ se.last_control_input = Calls[k].u

----------------------------------------------------------------------------
(* C7 *)

----------------------------------------------------------------------------
(* C8 *)

\* the last arrival among the first i that was the first reading or was
\* fused (0 when there is none)
RECURSIVE LastFused(_)
LastFused(i) ==
    IF i = 0 THEN 0
    ELSE IF i = 1 \/ Fused(i) THEN i
    ELSE LastFused(i - 1)

\* C8: the last fusion time is the timestamp of the last arrival that was
\* the first reading or whose predict and correct both succeeded; an arrival
\* that failed leaves it at the time of the reading fused before it.
C8_FusionTimeIsLastFusedArrival ==
    LET i == LastFused(Len(arrivals))
    IN  se.last_state_transition_time =
            IF i = 0 THEN None ELSE Some(StampTime(arrivals[i].msg))

----------------------------------------------------------------------------
(* C9 *)

\* the observation model and the noise covariance each modality is to use
ModelOf(kind) ==
    CASE kind = "imu" -> "measurement_function_rpy"
      [] kind = "optical_flow" -> "measurement_function_optical_flow"
      [] kind = "ir" -> "measurement_function_ir"

NoiseOf(kind) ==
    CASE kind = "imu" -> [name |-> "measurement_cov_rpy", dim |-> 3]
      [] kind = "optical_flow" -> [name |-> "measurement_cov_optical_flow", dim |-> 3]
      [] kind = "ir" -> [name |-> "measurement_cov_ir", dim |-> 1]

\* C9: every update is made with the observation model and the noise
\* covariance of the modality of its arrival (orientation model and 3x3 noise
\* for inertial, optical-flow model and 3x3 noise for optical flow,
\* slant-range model and 1x1 noise for range), never with the filter's
\* default, the combined 7-dimensional measurement_function.
C9_UpdateUsesModelOfItsModality ==
    \A k \in 1..Len(Calls) :
        Calls[k].op = "update" =>
            /\ Calls[k].hx = ModelOf(arrivals[Calls[k].arrival].msg.kind)
            /\ Calls[k].R = NoiseOf(arrivals[Calls[k].arrival].msg.kind)
            /\ Calls[k].hx # se.ukf.hx

\* an arrival of each of the three modalities has made its update
C9_EveryModalityUpdated ==
    \A kind \in Modalities :
        \E k \in 1..Len(Calls) :
            /\ Calls[k].op = "update"
            /\ arrivals[Calls[k].arrival].msg.kind = kind

----------------------------------------------------------------------------
(* apply_rotation_matrix, applied to body-frame vectors at orientations   *)
(* that are multiples of 90 degrees.  An angle in radians is a whole      *)
(* number of quarter turns (units of pi/2), where the sine and the cosine *)
(* are -1, 0 or 1.                                                        *)

Angles == {90 * k : k \in 0..MaxQuarterTurns}

Components == (0 - MaxComponent)..MaxComponent

Vectors == {<<a, b, c>> : a \in Components, b \in Components, c \in Components}

\* np.deg2rad: degrees to radians
deg2rad(deg) == deg \div 90

\* np.cos and np.sin of an angle in radians
cos(rad) == CASE rad % 4 = 0 -> 1 [] rad % 4 = 2 -> 0 - 1 [] OTHER -> 0

sin(rad) == CASE rad % 4 = 1 -> 1 [] rad % 4 = 3 -> 0 - 1 [] OTHER -> 0

\* np.dot of a 3x3 matrix and a 3-vector
dot(m, v) == [i \in 1..3 |-> m[i][1] * v[1] + m[i][2] * v[2] + m[i][3] * v[3]]

\* the filter's state x with roll, pitch, yaw (x[6], x[7], x[8] in Python,
\* counted from 0) as given and zero elsewhere
StateWith(roll, pitch, yaw) ==
    [i \in 1..12 |-> CASE i = 7 -> roll [] i = 8 -> pitch [] i = 9 -> yaw
                       [] OTHER -> 0]

\* apply_rotation_matrix, lines 289-304; x is self.ukf.x
apply_rotation_matrix(x, original_matrix) ==
    LET phi == deg2rad(x[7])
        theta == deg2rad(x[8])
        psi == deg2rad(x[9])
        rotation_matrix ==
            << <<cos(theta) * cos(psi),
                 sin(phi) * sin(theta) * cos(psi) - cos(phi) * sin(psi),
                 cos(phi) * sin(theta) * cos(psi) + sin(phi) * sin(psi)>>,
               <<cos(theta) * sin(psi),
                 sin(phi) * sin(theta) * sin(psi) + cos(phi) * cos(psi),
                 cos(theta) * sin(phi)>>,
               <<0 - sin(theta),
                 cos(theta) * sin(phi),
                 cos(theta) * cos(phi)>> >>
    IN  dot(rotation_matrix, original_matrix)

InitRotation ==
    /\ se = StateEstimation
    /\ thread = [t \in Modalities |-> Idle]
    /\ arrivals = <<>>
    /\ \E roll \in Angles, pitch \in Angles, yaw \in Angles, v \in Vectors :
          call = [fn |-> "apply_rotation_matrix", x |-> StateWith(roll, pitch, yaw),
                  original_matrix |-> v, result |-> None]

ApplyRotationMatrix ==
    /\ call.result = None
    /\ call' = [call EXCEPT !.result =
                   Some(apply_rotation_matrix(call.x, call.original_matrix))]
    /\ UNCHANGED <<se, thread, arrivals>>

SpecRotation == InitRotation /\ [][ApplyRotationMatrix]_vars

----------------------------------------------------------------------------
(* C10 *)

\* the elementary rotations about the x, y and z axes
rotation_x(a) ==
    << <<1, 0, 0>>, <<0, cos(a), 0 - sin(a)>>, <<0, sin(a), cos(a)>> >>

rotation_y(a) ==
    << <<cos(a), 0, sin(a)>>, <<0, 1, 0>>, <<0 - sin(a), 0, cos(a)>> >>

rotation_z(a) ==
    << <<cos(a), 0 - sin(a), 0>>, <<sin(a), cos(a), 0>>, <<0, 0, 1>> >>

\* C10: for every body-frame vector and every roll, pitch and yaw that are
\* multiples of 90 degrees, the rotation to the global frame is
\* rotation_z(yaw) . rotation_y(pitch) . rotation_x(roll) applied to the
\* vector (so zero roll, pitch and yaw leave the vector as it is).
C10_RotationIsYawPitchRoll ==
    call.result # None =>
        call.result[1] =
            dot(rotation_z(deg2rad(call.x[9])),
                dot(rotation_y(deg2rad(call.x[8])),
                    dot(rotation_x(deg2rad(call.x[7])), call.original_matrix)))

----------------------------------------------------------------------------
(* Orientation: the numbers that go into and come out of x[6], x[7], x[8] *)

\* An angle is a number together with the unit the number is in.  A number
\* of degrees n is the float n; a number of radians n is, as in
\* euler_from_quaternion, counted in quarter turns and is the float n * pi/2.

\* roll, pitch and yaw of the state x, x[6], x[7], x[8]: numbers of degrees
\* (roll_deg and pitch_deg of lines 351-352 and 376-377, the arguments of
\* np.deg2rad in lines 289-291)
state_orientation(x) == [unit |-> "deg", rpy |-> <<x[7], x[8], x[9]>>]

\* measurement_function_rpy, lines 407-411: np.dot(H, x) selects x[6], x[7]
\* and x[8] as they are
measurement_function_rpy(x) == state_orientation(x)

\* the rotation with roll, pitch and yaw of so many quarter turns, as the
\* images of the three unit vectors
rotation_of(rpy) ==
    [j \in 1..3 |->
        dot(rotation_z(rpy[3]),
            dot(rotation_y(rpy[2]),
                dot(rotation_x(rpy[1]), [i \in 1..3 |-> IF i = j THEN 1 ELSE 0])))]

\* tf.transformations.quaternion_from_euler(ai, aj, ak): the quaternion of
\* the rotation whose roll, pitch and yaw are the floats ai, aj, ak read as
\* radians.  Floats that are whole quarter turns give the rotation itself;
\* whole non-zero numbers are no multiple of pi/2, and their quaternion is
\* kept as the radians it was made from.
quaternion_from_euler(euler) ==
    IF euler.unit = "rad" \/ \A i \in 1..3 : euler.rpy[i] = 0
    THEN [rotation |-> rotation_of(euler.rpy)]
    ELSE [radians |-> euler.rpy]

\* publish_current_state, lines 258-277: the pose and twist it fills in
publish_current_state(x) ==
    [position |-> <<x[1], x[2], x[3]>>,
     orientation |-> quaternion_from_euler(state_orientation(x)),
     linear |-> <<x[4], x[5], x[6]>>,
     angular |-> <<x[10], x[11], x[12]>>]

\* lines 185-198 of imu_data_callback: the measurement made of the message's
\* orientation and the measurement function it is fused with
orientation_measurement(orientation, x) ==
    [measurement_z |-> euler_from_quaternion(orientation),
     hx |-> measurement_function_rpy(x)]

InitOrientation ==
    /\ se = StateEstimation
    /\ thread = [t \in Modalities |-> Idle]
    /\ arrivals = <<>>
    /\ \E roll \in Angles, pitch \in Angles, yaw \in Angles :
          \/ \E q \in 0..MaxQuarterTurns :
                call = [fn |-> "imu_data_callback", orientation |-> q,
                        x |-> StateWith(roll, pitch, yaw), result |-> None]
          \/ call = [fn |-> "publish_current_state",
                     x |-> StateWith(roll, pitch, yaw), result |-> None]

OrientationMeasurement ==
    /\ call.fn = "imu_data_callback"
    /\ call.result = None
    /\ call' = [call EXCEPT !.result =
                   Some(orientation_measurement(call.orientation, call.x))]
    /\ UNCHANGED <<se, thread, arrivals>>

PublishCurrentState ==
    /\ call.fn = "publish_current_state"
    /\ call.result = None
    /\ call' = [call EXCEPT !.result = Some(publish_current_state(call.x))]
    /\ UNCHANGED <<se, thread, arrivals>>

NextOrientation == OrientationMeasurement \/ PublishCurrentState

SpecOrientation == InitOrientation /\ [][NextOrientation]_vars

----------------------------------------------------------------------------
(* C11 *)

\* the same three floats, whatever unit each triple is written in: a whole
\* number of degrees and a whole number of quarter turns are the same float
\* only when both are zero
SameFloats(a, b) ==
    \A i \in 1..3 : IF a.unit = b.unit THEN a.rpy[i] = b.rpy[i]
                                       ELSE a.rpy[i] = 0 /\ b.rpy[i] = 0

\* degrees to radians, and the degrees of an orientation about the z axis
\* given in quarter turns
InRadians(euler) ==
    [unit |-> "rad", rpy |-> [i \in 1..3 |-> deg2rad(euler.rpy[i])]]

InDegrees(orientation) == [unit |-> "deg", rpy |-> <<0, 0, 90 * orientation>>]

\* C11: roll, pitch and yaw of the state are degrees wherever they are used:
\* the measurement an inertial arrival fuses with them is the message's
\* orientation in degrees, so that a message reporting the state's own
\* orientation measures exactly what the measurement function returns, and
\* the published quaternion is the one of the state's angles converted from
\* degrees to radians.
C11_OrientationIsInDegrees ==
    /\ call.fn = "imu_data_callback" /\ call.result # None =>
          /\ call.result[1].hx.unit = "deg"
          /\ SameFloats(call.result[1].measurement_z, InDegrees(call.orientation))
          /\ InDegrees(call.orientation) = state_orientation(call.x) =>
                SameFloats(call.result[1].measurement_z, call.result[1].hx)
    /\ call.fn = "publish_current_state" /\ call.result # None =>
          call.result[1].orientation =
              quaternion_from_euler(InRadians(state_orientation(call.x)))

----------------------------------------------------------------------------
(* The process model *)

\* the largest time step, in seconds, handed to the process model
MaxDt == 2

\* positions, velocities and angular velocities the state is made of
Triples == {<<0, 0, 0>>, <<MaxComponent, 0, 0 - MaxComponent>>}

\* the state x of position, velocity, orientation and angular velocity
StateOf(position, velocity, orientation, angular_velocity) ==
    [i \in 1..12 |-> CASE i <= 3 -> position[i]
                       [] i <= 6 -> velocity[i - 3]
                       [] i <= 9 -> orientation[i - 6]
                       [] OTHER -> angular_velocity[i - 9]]

\* F of lines 314-320: np.eye(12) with dt at [0,3], [1,4], [2,5], [6,9],
\* [7,10] and [8,11] (rows and columns counted from 0)
F(dt) ==
    [i \in 1..12 |-> [j \in 1..12 |->
        IF i = j THEN 1
        ELSE IF <<i, j>> \in {<<1, 4>>, <<2, 5>>, <<3, 6>>,
                              <<7, 10>>, <<8, 11>>, <<9, 12>>} THEN dt
        ELSE 0]]

\* the sum of a[k] * v[k] over k in 1..n
RECURSIVE inner(_, _, _)
inner(a, v, n) == IF n = 0 THEN 0 ELSE a[n] * v[n] + inner(a, v, n - 1)

\* state_transition_function(self, x, dt, u), lines 314-338; ukf_x is
\* self.ukf.x, which apply_rotation_matrix reads the angles of
state_transition_function(ukf_x, x, dt, u) ==
    LET accelerations_global_frame == apply_rotation_matrix(ukf_x, u)
        velocities_global_frame ==
            [i \in 1..3 |-> accelerations_global_frame[i] * dt]
        change_from_control_input ==
            [i \in 1..12 |-> IF i \in 4..6 THEN velocities_global_frame[i - 3]
                                           ELSE 0]
        x_output ==
            [i \in 1..12 |-> inner(F(dt)[i], x, 12) + change_from_control_input[i]]
    IN  x_output

InitTransition ==
    /\ se = StateEstimation
    /\ thread = [t \in Modalities |-> Idle]
    /\ arrivals = <<>>
    /\ \E roll \in Angles, pitch \in Angles, yaw \in Angles,
          position \in Triples, velocity \in Triples,
          angular_velocity \in Triples, dt \in 0..MaxDt, u \in Vectors :
       \E orientation \in {<<0, 0, 0>>, <<roll, pitch, yaw>>} :
          call = [fn |-> "state_transition_function",
                  ukf_x |-> StateWith(roll, pitch, yaw),
                  x |-> StateOf(position, velocity, orientation, angular_velocity),
                  dt |-> dt, u |-> u, result |-> None]

StateTransitionFunction ==
    /\ call.result = None
    /\ call' = [call EXCEPT !.result =
                   Some(state_transition_function(call.ukf_x, call.x,
                                                  call.dt, call.u))]
    /\ UNCHANGED <<se, thread, arrivals>>

SpecTransition == InitTransition /\ [][StateTransitionFunction]_vars

----------------------------------------------------------------------------
(* C12 *)

\* the body-frame vector v in the global frame, for the roll, pitch and yaw
\* of the estimate x
RotatedToGlobal(x, v) ==
    dot(rotation_z(deg2rad(x[9])),
        dot(rotation_y(deg2rad(x[8])), dot(rotation_x(deg2rad(x[7])), v)))

\* what remains of the process model when the control input is left out
Coasting(x, dt) ==
    [i \in 1..12 |-> IF i \in 1..3 \/ i \in 7..9 THEN x[i] + x[i + 3] * dt
                                                 ELSE x[i]]

\* C12: for every state x, time step dt >= 0 and control input u, the process
\* model returns position + velocity * dt, velocity + dt * (u rotated into
\* the global frame), orientation + angular velocity * dt and the angular
\* velocity as it was; u enters no component of orientation or angular
\* velocity, and with dt = 0 the result is x.
C12_ProcessModel ==
    call.result # None =>
        LET x_output == call.result[1]
            global == RotatedToGlobal(call.ukf_x, call.u)
        IN  /\ \A i \in 1..3 :
                  /\ x_output[i] = call.x[i] + call.x[i + 3] * call.dt
                  /\ x_output[i + 3] = call.x[i + 3] + call.dt * global[i]
                  /\ x_output[i + 6] = call.x[i + 6] + call.x[i + 9] * call.dt
                  /\ x_output[i + 9] = call.x[i + 9]
            /\ call.dt = 0 => x_output = call.x

\* the same with the rotation taken as apply_rotation_matrix computes it
ProcessModelUpToRotation ==
    call.result # None =>
        LET x_output == call.result[1]
            rotated == apply_rotation_matrix(call.ukf_x, call.u)
        IN  /\ \A i \in 1..12 :
                  x_output[i] = Coasting(call.x, call.dt)[i]
                      + (IF i \in 4..6 THEN call.dt * rotated[i - 3] ELSE 0)
            /\ call.dt = 0 => x_output = call.x

====
